---- MODULE Spec2Model ----
(***************************************************************************)
(* A model of the #[real_async_trait] attribute macro (src/src/lib.rs).    *)
(* The macro is a pure function from one annotated item to one emitted     *)
(* token stream (or a panic).  Syntax trees are records, Option<T> is a    *)
(* sequence of length 0 or 1, Vec<T> and Punctuated<T, _> are sequences.   *)
(***************************************************************************)
EXTENDS Integers, Sequences, FiniteSets, TLC

VARIABLES token_stream, expansion, scope

vars == <<token_stream, expansion, scope>>

(***************************************************************************)
(* Bounds of the inputs.                                                   *)
(***************************************************************************)
MaxMembers == 2
MaxUnitItems == 2

None == <<>>
Some(x) == <<x>>

(***************************************************************************)
(* Text.  A &str / String is a sequence of one-character strings, so that  *)
(* trimming and comparison are computed rather than assumed.               *)
(***************************************************************************)
RECURSIVE Join(_, _)
Join(strs, sep) ==
    IF strs = <<>> THEN <<>>
    ELSE IF Len(strs) = 1 THEN strs[1]
    ELSE strs[1] \o sep \o Join(Tail(strs), sep)

IsWhitespace(c) == c \in {" ", "\t", "\n"}

RECURSIVE TrimStart(_)
TrimStart(s) ==
    IF s # <<>> /\ IsWhitespace(s[1]) THEN TrimStart(Tail(s)) ELSE s

RECURSIVE TrimEnd(_)
TrimEnd(s) ==
    IF s # <<>> /\ IsWhitespace(s[Len(s)])
    THEN TrimEnd(SubSeq(s, 1, Len(s) - 1))
    ELSE s

trim(s) == TrimEnd(TrimStart(s))

(***************************************************************************)
(* proc_macro2 token trees and their Display.                              *)
(***************************************************************************)
Ident(text) == [tt |-> "Ident", text |-> text]
Punct(ch) == [tt |-> "Punct", ch |-> ch]
Literal(text) == [tt |-> "Literal", text |-> text]
Group(stream) == [tt |-> "Group", delimiter |-> "Parenthesis", stream |-> stream]

RECURSIVE TokenTreeToString(_)
TokenTreeToString(tok) ==
    CASE tok.tt = "Ident" -> tok.text
      [] tok.tt = "Literal" -> tok.text
      [] tok.tt = "Punct" -> <<tok.ch>>
      [] tok.tt = "Group" ->
            <<"(">>
            \o Join([i \in 1..Len(tok.stream) |-> TokenTreeToString(tok.stream[i])], <<" ">>)
            \o <<")">>

\* TokenStream::to_string: the token trees, separated by one space.
TokenStreamToString(stream) ==
    Join([i \in 1..Len(stream) |-> TokenTreeToString(stream[i])], <<" ">>)

(***************************************************************************)
(* enum RealAsyncTraitAttributes and its FromStr.                          *)
(***************************************************************************)
RealAsyncTraitAttributes == {"Send"}

Ok(v) == [ok |-> TRUE, value |-> v]
Err(e) == [ok |-> FALSE, error |-> e]

from_str_lenient(s) == Ok("Send")

from_str(s) ==
    LET trimmed_str == trim(s)
    IN  IF trimmed_str \in {<<"S", "e", "n", "d">>, <<"s", "e", "n", "d">>}
        THEN Ok("Send")
        ELSE Err("Could not parse into an attribute")

(***************************************************************************)
(* Attributes.                                                             *)
(***************************************************************************)
PathSegment(ident, arguments) == [ident |-> ident, arguments |-> arguments]
PathArgumentsNone == [pa |-> "None"]
AngleBracketed(args) == [pa |-> "AngleBracketed", args |-> args]

Attribute(path, tokens) == [path |-> path, tokens |-> tokens]

is_real_async_attribute(attr) ==
    LET p == attr.path
        t == attr.tokens
    IN  /\ p.leading_colon = FALSE
        /\ Len(p.segments) = 1
        /\ p.segments[1].arguments = PathArgumentsNone
        /\ p.segments[1].ident = "real_async_trait"
        /\ t # <<>>

\* attrs.retain(|attr| !is_real_async_attribute(attr))
RECURSIVE Retain(_)
Retain(attrs) ==
    IF attrs = <<>> THEN <<>>
    ELSE IF is_real_async_attribute(attrs[1]) THEN Retain(Tail(attrs))
    ELSE <<attrs[1]>> \o Retain(Tail(attrs))

\* The token streams of the matching attributes, in attribute order.
RECURSIVE AttributeGroups(_)
AttributeGroups(attrs) ==
    IF attrs = <<>> THEN <<>>
    ELSE IF is_real_async_attribute(attrs[1])
         THEN <<attrs[1].tokens>> \o AttributeGroups(Tail(attrs))
         ELSE AttributeGroups(Tail(attrs))

\* The two nested loops of parse_attributes over the groups' token trees:
\* the first offending token panics; otherwise the set of parsed variants.
RECURSIVE ParseTokens(_, _)
ParseTokens(toks, ret_val) ==
    IF toks = <<>> THEN [panic |-> None, ret_val |-> ret_val]
    ELSE LET tok == toks[1]
         IN  IF tok.tt = "Punct"
             THEN [panic |-> Some("Did not expect punctuation in the attribute"),
                   ret_val |-> ret_val]
             ELSE LET string_repr ==
                          CASE tok.tt = "Group" -> TokenStreamToString(tok.stream)
                            [] tok.tt = "Ident" -> tok.text
                            [] tok.tt = "Literal" -> tok.text
                      parsed == from_str(string_repr)
                  IN  IF parsed.ok
                      THEN ParseTokens(Tail(toks), ret_val \cup {parsed.value})
                      ELSE [panic |-> Some("Could not parse the attribute token"),
                            ret_val |-> ret_val]

RECURSIVE Flatten(_)
Flatten(seqs) == IF seqs = <<>> THEN <<>> ELSE seqs[1] \o Flatten(Tail(seqs))

\* Returns the panic (if any), the attributes left on the method, and the
\* HashSet of capabilities.
parse_attributes(attrs) ==
    LET attribute_groups_token_stream == AttributeGroups(attrs)
        retained == Retain(attrs)
    IN  IF Len(attribute_groups_token_stream) = 0
        THEN [panic |-> None, attrs |-> retained, ret_val |-> {}]
        ELSE LET parsed == ParseTokens(Flatten(attribute_groups_token_stream), {})
             IN  [panic |-> parsed.panic, attrs |-> retained, ret_val |-> parsed.ret_val]

(***************************************************************************)
(* syn types, signatures and generics.                                     *)
(***************************************************************************)
Path(leading_colon, segments) == [leading_colon |-> leading_colon, segments |-> segments]

TypePath(path) == [ty |-> "Path", qself |-> None, path |-> path]
TypeReference(lifetime, elem) == [ty |-> "Reference", lifetime |-> lifetime, elem |-> elem]
TypeSlice(elem) == [ty |-> "Slice", elem |-> elem]
TypeTuple(elems) == [ty |-> "Tuple", elems |-> elems]

GenericArgumentLifetime(lifetime) == [ga |-> "Lifetime", lifetime |-> lifetime]
GenericArgumentType(ty) == [ga |-> "Type", ty |-> ty]
Binding(ident, ty) == [ga |-> "Binding", ident |-> ident, ty |-> ty]

ReturnTypeDefault == [rt |-> "Default"]
ReturnTypeType(ty) == [rt |-> "Type", ty |-> ty]

Receiver(reference, mutability) ==
    [arg |-> "Receiver", reference |-> reference, mutability |-> mutability]
Typed(ty) == [arg |-> "Typed", ty |-> ty]

LifetimeDef(lifetime) == [gp |-> "Lifetime", lifetime |-> lifetime, bounds |-> <<>>]
TypeParam(ident) == [gp |-> "Type", ident |-> ident]

Signature(asyncness, ident, generics, inputs, output) ==
    [asyncness |-> asyncness, ident |-> ident, generics |-> generics,
     inputs |-> inputs, output |-> output]

\* Generics as parsed from source: the angle brackets are there iff a
\* parameter is.
Generics(params) ==
    [lt_token |-> params # <<>>, gt_token |-> params # <<>>, params |-> params,
     where_clause |-> None]

\* Generics { lt_token: Some(..), gt_token: Some(..), where_clause: None, params }
GeneratedGenerics(params) ==
    [lt_token |-> TRUE, gt_token |-> TRUE, params |-> params, where_clause |-> None]

RECURSIVE LifetimeParams(_)
LifetimeParams(params) ==
    IF params = <<>> THEN <<>>
    ELSE IF params[1].gp = "Lifetime"
         THEN <<params[1]>> \o LifetimeParams(Tail(params))
         ELSE LifetimeParams(Tail(params))

\* Generics::lifetimes(): the lifetime parameters, in declaration order.
lifetimes(generics) == LifetimeParams(generics.params)

(***************************************************************************)
(* LifetimeVisitor: syn::visit::visit_type with visit_type_reference       *)
(* overridden.  TRUE when the walk panics.  The override does not call the *)
(* default visit_type_reference, so the walk stops at every reference.     *)
(***************************************************************************)
visit_type_reference(i) == i.lifetime = None

RECURSIVE visit_type(_)
visit_type(ty) ==
    CASE ty.ty = "Reference" -> visit_type_reference(ty)
      [] ty.ty = "Slice" -> visit_type(ty.elem)
      [] ty.ty = "Tuple" -> \E k \in 1..Len(ty.elems) : visit_type(ty.elems[k])
      [] ty.ty = "Path" ->
            \E s \in 1..Len(ty.path.segments) :
                LET arguments == ty.path.segments[s].arguments
                IN  /\ arguments.pa = "AngleBracketed"
                    /\ \E a \in 1..Len(arguments.args) :
                          /\ arguments.args[a].ga \in {"Type", "Binding"}
                          /\ visit_type(arguments.args[a].ty)

ReferenceLackedLifetime ==
    "Reference lacked an explicit lifetime, which is required by this proc macro"
SelfLackedLifetime ==
    "self parameter lacked an explicit lifetime, which is required by this proc macro"

\* The loop over signature.inputs: the panic of the first offending input.
RECURSIVE ValidateInputs(_)
ValidateInputs(inputs) ==
    IF inputs = <<>> THEN None
    ELSE LET input == inputs[1]
         IN  IF input.arg = "Receiver"
             THEN IF input.reference # None /\ input.reference[1] = None
                  THEN Some(SelfLackedLifetime)
                  ELSE ValidateInputs(Tail(inputs))
             ELSE IF visit_type(input.ty)
                  THEN Some(ReferenceLackedLifetime)
                  ELSE ValidateInputs(Tail(inputs))

validate_inputs_only(signature) == ValidateInputs(signature.inputs)

\* The panic of the first offending input, else of the return type, else None.
validate_that_function_always_has_lifetimes(signature) ==
    LET in_inputs == ValidateInputs(signature.inputs)
    IN  IF in_inputs # None THEN in_inputs
        ELSE IF signature.output.rt = "Type" /\ visit_type(signature.output.ty)
             THEN Some(ReferenceLackedLifetime)
             ELSE None

already_defined_lifetimes_disjoint(toplevel_generics, method_generics) ==
    <<lifetimes(toplevel_generics), lifetimes(method_generics)>>

already_defined_lifetimes_all(toplevel_generics, method_generics) ==
    LET all == lifetimes(toplevel_generics) \o lifetimes(method_generics)
    IN  <<all, all>>

already_defined_lifetimes(toplevel_generics, method_generics) ==
    LET function_lifetimes == lifetimes(method_generics)
    IN  <<lifetimes(toplevel_generics) \o function_lifetimes, function_lifetimes>>

lifetime_angle_bracketed_bounds(lts) ==
    AngleBracketed([k \in 1..Len(lts) |-> GenericArgumentLifetime(lts[k])])

gat_ident_for_sig(sig) == "__real_async_trait_impl_TypeFor_" \o sig.ident

self_gat_type(gat_ident, function_lifetimes) ==
    TypePath(Path(FALSE,
        <<PathSegment("Self", PathArgumentsNone),
          PathSegment(gat_ident, lifetime_angle_bracketed_bounds(function_lifetimes))>>))

return_type_as_written(retval) ==
    IF retval.rt = "Default" THEN TypePath(Path(FALSE, <<PathSegment("_", PathArgumentsNone)>>))
    ELSE retval.ty

return_type(retval) ==
    IF retval.rt = "Default" THEN TypeTuple(<<>>) ELSE retval.ty

TraitBound(path) ==
    [bound |-> "Trait", lifetimes |-> None, modifier |-> "None", path |-> path]
LifetimeBound(lifetime) == [bound |-> "Lifetime", lifetime |-> lifetime]

\* "::core::future::Future" parsed as a Path, Output bound on its last segment.
future_trait_bound(fn_output_ty) ==
    TraitBound(Path(TRUE,
        <<PathSegment("core", PathArgumentsNone),
          PathSegment("future", PathArgumentsNone),
          PathSegment("Future", AngleBracketed(<<Binding("Output", fn_output_ty)>>))>>))

\* impl From<RealAsyncTraitAttributes> for TypeParamBound
TypeParamBoundFrom(attr) ==
    TraitBound(Path(TRUE,
        <<PathSegment("core", PathArgumentsNone),
          PathSegment("marker", PathArgumentsNone),
          PathSegment("Send", PathArgumentsNone)>>))

\* HashSet::into_iter: the elements in some order.
RECURSIVE SetToSeq(_)
SetToSeq(S) ==
    IF S = {} THEN <<>>
    ELSE LET x == CHOOSE y \in S : TRUE IN <<x>> \o SetToSeq(S \ {x})

(***************************************************************************)
(* Members and items.                                                      *)
(***************************************************************************)
TraitItemMethod(attrs, sig) ==
    [member |-> "Method", attrs |-> attrs, sig |-> sig, default |-> None]
ImplItemMethod(attrs, sig, stmts) ==
    [member |-> "Method", attrs |-> attrs, sig |-> sig, block |-> [stmts |-> stmts]]
TraitItemType(ident, generics, bounds) ==
    [member |-> "Type", attrs |-> <<>>, ident |-> ident, generics |-> generics,
     colon_token |-> TRUE, bounds |-> bounds, default |-> None]
ImplItemType(ident, generics, ty) ==
    [member |-> "Type", attrs |-> <<>>, vis |-> "Inherited", defaultness |-> None,
     ident |-> ident, generics |-> generics, ty |-> ty]
ItemType(ident, generics, ty) ==
    [item |-> "Type", attrs |-> <<>>, vis |-> "Inherited", ident |-> ident,
     generics |-> generics, ty |-> ty]
TypeImplTrait(bounds) == [ty |-> "ImplTrait", bounds |-> bounds]

ItemTrait(ident, generics, items) ==
    [item |-> "Trait", ident |-> ident, generics |-> generics, items |-> items]
ItemImpl(trait_, self_ty, generics, items) ==
    [item |-> "Impl", trait_ |-> trait_, self_ty |-> self_ty, generics |-> generics,
     items |-> items]

StmtExpr(expr) == [stmt |-> "Expr", expr |-> expr]
ExprAsync(capture, stmts) ==
    [expr |-> "Async", attrs |-> <<>>, capture |-> capture, block |-> [stmts |-> stmts]]

IsAnyMethod(m) == m.member = "Method"

\* filter_map(Method).filter(|method| method.sig.asyncness.is_some())
IsAsyncMethod(m) == m.member = "Method" /\ m.sig.asyncness

Lifetimes(defs) == [k \in 1..Len(defs) |-> defs[k].lifetime]
LifetimeBounds(defs) == [k \in 1..Len(defs) |-> LifetimeBound(defs[k].lifetime)]

(***************************************************************************)
(* handle_item_trait: the loop over the async methods, then the extend.    *)
(***************************************************************************)
\* One iteration of the loop body for the async method `method`.
TraitMethodStep(generics, method) ==
    LET parsed == parse_attributes(method.attrs)
        gat_ident == gat_ident_for_sig(method.sig)
        method_return_ty == return_type(method.sig.output)
        invalid == validate_that_function_always_has_lifetimes(method.sig)
        defined == already_defined_lifetimes(generics, method.sig.generics)
        toplevel_lifetimes == defined[1]
        function_lifetimes == defined[2]
        bounds == <<future_trait_bound(method_return_ty)>>
                  \o LifetimeBounds(toplevel_lifetimes)
                  \o [k \in 1..Cardinality(parsed.ret_val) |->
                         TypeParamBoundFrom(SetToSeq(parsed.ret_val)[k])]
    IN  IF parsed.panic # None THEN [panic |-> parsed.panic]
        ELSE IF invalid # None THEN [panic |-> invalid]
        ELSE [panic |-> None,
              method |-> [method EXCEPT
                  !.attrs = parsed.attrs,
                  !.sig.asyncness = FALSE,
                  !.sig.output = ReturnTypeType(
                      self_gat_type(gat_ident, Lifetimes(function_lifetimes)))],
              gat |-> TraitItemType(gat_ident, GeneratedGenerics(function_lifetimes),
                                    bounds)]

RECURSIVE TraitLoop(_, _, _, _)
TraitLoop(generics, items, i, new_gat_items) ==
    IF i > Len(items) THEN [panic |-> None, items |-> items,
                            new_gat_items |-> new_gat_items]
    ELSE IF ~IsAsyncMethod(items[i])
         THEN TraitLoop(generics, items, i + 1, new_gat_items)
         ELSE LET step == TraitMethodStep(generics, items[i])
              IN  IF step.panic # None THEN [panic |-> step.panic]
                  ELSE TraitLoop(generics, [items EXCEPT ![i] = step.method], i + 1,
                                 Append(new_gat_items, step.gat))

Panicked(message) == [status |-> "panic", message |-> message]
Emitted(stream) == [status |-> "ok", stream |-> stream]

handle_item_trait(item) ==
    LET loop == TraitLoop(item.generics, item.items, 1, <<>>)
    IN  IF loop.panic # None THEN Panicked(loop.panic[1])
        ELSE Emitted(<<[item EXCEPT !.items = loop.items \o loop.new_gat_items]>>)

(***************************************************************************)
(* handle_item_impl.                                                       *)
(***************************************************************************)
existential_type_name_fixed(ident) == "__real_async_trait_impl_ExistentialTypeFor_"

existential_type_name(ident) == "__real_async_trait_impl_ExistentialTypeFor_" \o ident

\* method.block.stmts = vec![Stmt::Expr(Expr::Async(.. move { method_stmts }))]
async_move_block(method_stmts) == <<StmtExpr(ExprAsync(Some("move"), method_stmts))>>

ImplMethodStep(generics, method) ==
    LET invalid == validate_that_function_always_has_lifetimes(method.sig)
        defined == already_defined_lifetimes(generics, method.sig.generics)
        toplevel_lifetimes == defined[1]
        function_lifetimes == defined[2]
        name == existential_type_name(method.sig.ident)
        existential_path_type ==
            TypePath(Path(FALSE,
                <<PathSegment("self", PathArgumentsNone),
                  PathSegment(name, lifetime_angle_bracketed_bounds(
                                        Lifetimes(toplevel_lifetimes)))>>))
        gat_ident == gat_ident_for_sig(method.sig)
    IN  IF invalid # None THEN [panic |-> invalid]
        ELSE [panic |-> None,
              existential |-> ItemType(name, GeneratedGenerics(toplevel_lifetimes),
                  TypeImplTrait(
                      <<future_trait_bound(return_type(method.sig.output))>>
                      \o LifetimeBounds(toplevel_lifetimes))),
              gat |-> ImplItemType(gat_ident, GeneratedGenerics(function_lifetimes),
                                   existential_path_type),
              method |-> [method EXCEPT
                  !.sig.asyncness = FALSE,
                  !.sig.output = ReturnTypeType(
                      self_gat_type(gat_ident, Lifetimes(function_lifetimes))),
                  !.block.stmts = async_move_block(method.block.stmts)]]

RECURSIVE ImplLoop(_, _, _, _, _)
ImplLoop(generics, items, i, existential_type_defs, gat_defs) ==
    IF i > Len(items) THEN [panic |-> None, items |-> items,
                            existential_type_defs |-> existential_type_defs,
                            gat_defs |-> gat_defs]
    ELSE IF ~IsAsyncMethod(items[i])
         THEN ImplLoop(generics, items, i + 1, existential_type_defs, gat_defs)
         ELSE LET step == ImplMethodStep(generics, items[i])
              IN  IF step.panic # None THEN [panic |-> step.panic]
                  ELSE ImplLoop(generics, [items EXCEPT ![i] = step.method], i + 1,
                                Append(existential_type_defs, step.existential),
                                Append(gat_defs, step.gat))

PrivateModIdent == "__real_async_trait_impl"

UseSuperGlob == [item |-> "Use", tree |-> "super::*"]

handle_item_impl_prepend(item) ==
    LET loop == ImplLoop(item.generics, item.items, 1, <<>>, <<>>)
    IN  IF loop.panic # None THEN Panicked(loop.panic[1])
        ELSE Emitted(<<[item |-> "Mod", ident |-> PrivateModIdent,
                        content |-> <<UseSuperGlob,
                                      [item EXCEPT !.items = loop.gat_defs \o loop.items]>>
                                    \o loop.existential_type_defs]>>)

handle_item_impl(item) ==
    LET loop == ImplLoop(item.generics, item.items, 1, <<>>, <<>>)
    IN  IF loop.panic # None THEN Panicked(loop.panic[1])
        ELSE Emitted(<<[item |-> "Mod", ident |-> PrivateModIdent,
                        content |-> <<UseSuperGlob,
                                      [item EXCEPT !.items = loop.items \o loop.gat_defs]>>
                                    \o loop.existential_type_defs]>>)

(***************************************************************************)
(* real_async_trait2: the dispatch on what the token stream parses as.     *)
(***************************************************************************)
ParsesAsItemTrait(ts) == ts.item = "Trait"
\* syn's ItemImpl has trait_: Option<..>: an inherent impl parses as well.
ParsesAsItemImpl(ts) == ts.item = "Impl"

real_async_trait2(ts) ==
    IF ParsesAsItemTrait(ts) THEN handle_item_trait(ts)
    ELSE IF ParsesAsItemImpl(ts) THEN handle_item_impl(ts)
    ELSE Panicked("expected either a trait or an impl item")

(***************************************************************************)
(* The annotated items the macro is run on.                                *)
(***************************************************************************)
PlainPath(ident) == Path(FALSE, <<PathSegment(ident, PathArgumentsNone)>>)

RealAsyncTraitPath == PlainPath("real_async_trait")

AttrBare == Attribute(RealAsyncTraitPath, <<>>)
AttrEmptyList == Attribute(RealAsyncTraitPath, <<Group(<<>>)>>)
AttrSend == Attribute(RealAsyncTraitPath, <<Group(<<Ident(<<"S", "e", "n", "d">>)>>)>>)
AttrLowerSend == Attribute(RealAsyncTraitPath, <<Group(<<Ident(<<"s", "e", "n", "d">>)>>)>>)
AttrUpperSend == Attribute(RealAsyncTraitPath, <<Group(<<Ident(<<"S", "E", "N", "D">>)>>)>>)
AttrMixedSend == Attribute(RealAsyncTraitPath, <<Group(<<Ident(<<"s", "E", "n", "D">>)>>)>>)
AttrSendSend ==
    Attribute(RealAsyncTraitPath,
        <<Group(<<Ident(<<"S", "e", "n", "d">>), Punct(","), Ident(<<"S", "e", "n", "d">>)>>)>>)
AttrSync == Attribute(RealAsyncTraitPath, <<Group(<<Ident(<<"S", "y", "n", "c">>)>>)>>)
AttrEqSync ==
    Attribute(RealAsyncTraitPath,
        <<Punct("="), Literal(<<"\"", "S", "y", "n", "c", "\"">>)>>)
AttrInline == Attribute(PlainPath("inline"), <<>>)
AttrQualified ==
    Attribute(Path(FALSE, <<PathSegment("real_async_trait", PathArgumentsNone),
                            PathSegment("real_async_trait", PathArgumentsNone)>>),
              <<Group(<<Ident(<<"S", "y", "n", "c">>)>>)>>)

AttrLists ==
    { <<AttrBare>>, <<AttrEmptyList>>, <<AttrSend>>, <<AttrLowerSend>>, <<AttrUpperSend>>,
      <<AttrMixedSend>>, <<AttrSendSend>>, <<AttrSend, AttrLowerSend>>, <<AttrSync>>,
      <<AttrSend, AttrSync>>, <<AttrEqSync>>, <<AttrInline, AttrSend>>, <<AttrQualified>> }

U8 == TypePath(PlainPath("u8"))
Errno == TypePath(PlainPath("Errno"))
ResultOf(ty) ==
    TypePath(Path(FALSE, <<PathSegment("Result",
        AngleBracketed(<<GenericArgumentType(ty), GenericArgumentType(Errno)>>))>>))
OptionOf(ty) ==
    TypePath(Path(FALSE, <<PathSegment("Option", AngleBracketed(<<GenericArgumentType(ty)>>))>>))

LtA == "'a"
LtT == "'t"

RefSelf(lifetime, mutability) == Receiver(Some(lifetime), mutability)

\* The signature shapes: [generics, inputs, output].
SigOpen ==
    [generics |-> Generics(<<LifetimeDef(LtA)>>),
     inputs |-> <<RefSelf(Some(LtA), FALSE), Typed(TypeReference(Some(LtA), TypeSlice(U8)))>>,
     output |-> ReturnTypeType(ResultOf(U8))]
SigNoResult ==
    [generics |-> Generics(<<LifetimeDef(LtA)>>),
     inputs |-> <<RefSelf(Some(LtA), TRUE)>>,
     output |-> ReturnTypeDefault]
SigTopLevel ==
    [generics |-> Generics(<<>>),
     inputs |-> <<RefSelf(Some(LtT), FALSE)>>,
     output |-> ReturnTypeType(TypeReference(Some(LtT), U8))]
SigBareSelf ==
    [generics |-> Generics(<<LifetimeDef(LtA)>>),
     inputs |-> <<RefSelf(None, FALSE)>>,
     output |-> ReturnTypeType(U8)]
SigBareParam ==
    [generics |-> Generics(<<LifetimeDef(LtA)>>),
     inputs |-> <<RefSelf(Some(LtA), FALSE), Typed(TypeReference(None, U8))>>,
     output |-> ReturnTypeType(U8)]
SigBareReturn ==
    [generics |-> Generics(<<LifetimeDef(LtA)>>),
     inputs |-> <<RefSelf(Some(LtA), FALSE)>>,
     output |-> ReturnTypeType(TypeReference(None, U8))]
SigNestedRef ==
    [generics |-> Generics(<<LifetimeDef(LtA)>>),
     inputs |-> <<RefSelf(Some(LtA), FALSE),
                  Typed(TypeReference(Some(LtA), TypeReference(None, U8)))>>,
     output |-> ReturnTypeType(U8)]
SigNestedTuple ==
    [generics |-> Generics(<<LifetimeDef(LtA)>>),
     inputs |-> <<Receiver(None, FALSE), Typed(TypeTuple(<<U8, TypeReference(None, U8)>>))>>,
     output |-> ReturnTypeType(OptionOf(TypeReference(Some(LtA), U8)))]

GoodSigs == {SigOpen, SigNoResult}
OtherSigs == {SigTopLevel, SigBareSelf, SigBareParam, SigBareReturn, SigNestedRef,
              SigNestedTuple}

Sig(asyncness, ident, shape) ==
    Signature(asyncness, ident, shape.generics, shape.inputs, shape.output)

MethodIdents == {"f", "g"}

TraitMembers ==
    {TraitItemMethod(attrs, Sig(TRUE, "f", SigOpen)) : attrs \in AttrLists}
    \cup {TraitItemMethod(<<>>, Sig(a, id, shape)) :
            a \in BOOLEAN, id \in MethodIdents, shape \in GoodSigs}
    \cup {TraitItemMethod(<<>>, Sig(a, "f", shape)) : a \in BOOLEAN, shape \in OtherSigs}
    \cup {TraitItemMethod(attrs, Sig(FALSE, "g", SigBareSelf)) :
            attrs \in {<<AttrSend>>, <<AttrSync>>}}
    \cup {TraitItemMethod(<<AttrSync>>, Sig(TRUE, "g", SigBareParam)),
          TraitItemMethod(<<AttrSend>>, Sig(TRUE, "g", SigBareSelf))}
    \cup {[member |-> "Type", attrs |-> <<AttrSend>>, ident |-> "Error",
           generics |-> Generics(<<>>), colon_token |-> FALSE, bounds |-> <<>>,
           default |-> None],
          [member |-> "Const", attrs |-> <<>>, ident |-> "ENOENT", ty |-> U8]}

Verbatim(tokens) == [expr |-> "Verbatim", tokens |-> tokens]
Bodies ==
    { <<>>,
      <<StmtExpr(Verbatim("Err(ENOENT)"))>>,
      <<[stmt |-> "Semi", expr |-> Verbatim("log()")], StmtExpr(Verbatim("Err(EBADF)"))>> }

ImplMembers ==
    {ImplItemMethod(<<>>, Sig(a, id, shape), body) :
        a \in BOOLEAN, id \in MethodIdents, shape \in {SigOpen},
        body \in Bodies}
    \cup {ImplItemMethod(<<>>, Sig(a, "g", SigNoResult), <<>>) : a \in BOOLEAN}
    \cup {ImplItemMethod(<<>>, Sig(a, "f", shape), <<StmtExpr(Verbatim("Err(ENOENT)"))>>) :
            a \in BOOLEAN, shape \in OtherSigs}
    \cup {ImplItemMethod(attrs, Sig(TRUE, "g", SigOpen), <<>>) :
            attrs \in {<<AttrSend>>, <<AttrSync>>}}
    \cup {[member |-> "Type", attrs |-> <<>>, vis |-> "Inherited", defaultness |-> None,
           ident |-> "Error", generics |-> Generics(<<>>), ty |-> Errno],
          [member |-> "Const", attrs |-> <<>>, ident |-> "ENOENT", ty |-> U8]}

RECURSIVE SeqsUpTo(_, _)
SeqsUpTo(S, n) ==
    IF n = 0 THEN {<<>>}
    ELSE LET shorter == SeqsUpTo(S, n - 1)
         IN  shorter \cup {Append(q, x) : q \in {r \in shorter : Len(r) = n - 1}, x \in S}

ItemGenerics == {Generics(<<>>), Generics(<<LifetimeDef(LtT), TypeParam("T")>>)}

TraitItems ==
    {ItemTrait("Scheme", g, items) :
        g \in ItemGenerics, items \in SeqsUpTo(TraitMembers, MaxMembers)}
ImplItems ==
    {ItemImpl(Some("Scheme"), "Nothing", g, items) :
        g \in ItemGenerics, items \in SeqsUpTo(ImplMembers, MaxMembers)}
    \cup {ItemImpl(None, "Nothing", Generics(<<>>), items) :
            items \in SeqsUpTo(ImplMembers, 1)}
OtherItems == {[item |-> "Struct", ident |-> "Nothing"], [item |-> "Fn", ident |-> "main"]}

Items == TraitItems \cup ImplItems \cup OtherItems

\* The annotated items of a source unit that holds several of them.
UnitMembers ==
    {ImplItemMethod(<<>>, Sig(TRUE, "f", shape), <<StmtExpr(Verbatim("Err(ENOENT)"))>>) :
        shape \in {SigOpen, SigBareSelf}}
UnitItems ==
    {ItemImpl(t, ty, Generics(<<>>), items) :
        t \in {None, Some("Scheme")}, ty \in {"Nothing", "Null"},
        items \in SeqsUpTo(UnitMembers, 1)}
    \cup {ItemTrait("Scheme", Generics(<<>>),
                    <<TraitItemMethod(<<>>, Sig(TRUE, "f", SigOpen))>>)}
    \cup {ItemTrait("Scheme", Generics(<<LifetimeDef(LtT), TypeParam("T")>>),
                    <<TraitItemMethod(<<>>, Sig(TRUE, "f", SigTopLevel))>>)}
    \cup {ItemImpl(Some("Scheme"), "Nothing", Generics(<<LifetimeDef(LtT), TypeParam("T")>>),
                   <<ImplItemMethod(<<>>, Sig(TRUE, "f", shape),
                                    <<StmtExpr(Verbatim("Err(ENOENT)"))>>)>>) :
              shape \in {SigOpen, SigTopLevel}}
    \cup OtherItems

(***************************************************************************)
(* The state: the item under expansion, its expansion, and the items the   *)
(* expansions so far have put into the surrounding module.                 *)
(***************************************************************************)
Pending == [status |-> "pending"]

\* What an expansion adds to the surrounding module: each emitted top-level
\* item with its name, and the declaration it was generated for.
Spliced(ts, exp) ==
    IF exp.status = "ok"
    THEN [k \in 1..Len(exp.stream) |->
            [item |-> exp.stream[k].item, ident |-> exp.stream[k].ident,
             for |-> IF ts.item = "Impl" THEN ts.self_ty ELSE ts.ident,
             written |-> ts, emitted |-> exp.stream[k]]]
    ELSE <<>>

Expand ==
    /\ expansion' = real_async_trait2(token_stream)
    /\ scope' = scope \o Spliced(token_stream, expansion')
    /\ UNCHANGED token_stream

ExpandTrait ==
    /\ expansion = Pending
    /\ ParsesAsItemTrait(token_stream)
    /\ Expand

ExpandImpl ==
    /\ expansion = Pending
    /\ ~ParsesAsItemTrait(token_stream)
    /\ ParsesAsItemImpl(token_stream)
    /\ Expand

ExpandReject ==
    /\ expansion = Pending
    /\ ~ParsesAsItemTrait(token_stream)
    /\ ~ParsesAsItemImpl(token_stream)
    /\ Expand

\* The compiler reaches the next annotated item of the same module.
NextAnnotatedItem ==
    /\ expansion # Pending
    /\ Len(scope) < MaxUnitItems
    /\ \E ts \in UnitItems : token_stream' = ts
    /\ expansion' = Pending
    /\ UNCHANGED scope

Init ==
    /\ token_stream \in Items
    /\ expansion = Pending
    /\ scope = <<>>

Next == ExpandTrait \/ ExpandImpl \/ ExpandReject

Spec == Init /\ [][Next]_vars

UnitInit ==
    /\ token_stream \in UnitItems
    /\ expansion = Pending
    /\ scope = <<>>

UnitNext == ExpandTrait \/ ExpandImpl \/ ExpandReject \/ NextAnnotatedItem

UnitSpec == UnitInit /\ [][UnitNext]_vars

(***************************************************************************)
(* Vocabulary of the properties, stated on the input and the output and    *)
(* not through the operators above.                                        *)
(***************************************************************************)
Done == expansion.status # "pending"
Succeeded == expansion.status = "ok"
Failed == expansion.status = "panic"

OnTrait == token_stream.item = "Trait"
OnImpl == token_stream.item = "Impl"

\* The members written by the user, and the members of the emitted
\* declaration (the trait itself, or the impl inside the private module).
Written == token_stream.items
EmittedDecl == IF OnTrait THEN expansion.stream[1] ELSE expansion.stream[1].content[2]
Emitted_ == EmittedDecl.items
Appended == (Len(Written) + 1)..Len(Emitted_)

AsyncMarked(m) == m.member = "Method" /\ m.sig.asyncness = TRUE

SlotPrefix == "__real_async_trait_impl_TypeFor_"
AliasPrefix == "__real_async_trait_impl_ExistentialTypeFor_"

MissingLifetimeErrors == {ReferenceLackedLifetime, SelfLackedLifetime}
UnrecognizedCapabilityError == "Could not parse the attribute token"
MalformedAnnotationError == "Did not expect punctuation in the attribute"
ShapeError == "expected either a trait or an impl item"

\* Some reference, at any depth of the type, has no lifetime.
RECURSIVE HasBareReference(_)
HasBareReference(ty) ==
    CASE ty.ty = "Reference" -> ty.lifetime = <<>> \/ HasBareReference(ty.elem)
      [] ty.ty = "Slice" -> HasBareReference(ty.elem)
      [] ty.ty = "Tuple" -> \E k \in 1..Len(ty.elems) : HasBareReference(ty.elems[k])
      [] ty.ty = "Path" ->
            \E s \in 1..Len(ty.path.segments) :
                /\ ty.path.segments[s].arguments.pa = "AngleBracketed"
                /\ \E a \in 1..Len(ty.path.segments[s].arguments.args) :
                      /\ ty.path.segments[s].arguments.args[a].ga # "Lifetime"
                      /\ HasBareReference(ty.path.segments[s].arguments.args[a].ty)

BareReceiver(input) ==
    input.arg = "Receiver" /\ input.reference # <<>> /\ input.reference[1] = <<>>

\* Every reference of the signature carries an explicit lifetime.
FullyAnnotated(sig) ==
    /\ \A k \in 1..Len(sig.inputs) :
          IF sig.inputs[k].arg = "Receiver" THEN ~BareReceiver(sig.inputs[k])
          ELSE ~HasBareReference(sig.inputs[k].ty)
    /\ sig.output.rt = "Type" => ~HasBareReference(sig.output.ty)

\* A reference-typed parameter, the by-reference receiver or a reference
\* return type has no lifetime.
LacksLifetime(sig) ==
    \/ \E k \in 1..Len(sig.inputs) :
          \/ BareReceiver(sig.inputs[k])
          \/ /\ sig.inputs[k].arg = "Typed"
             /\ sig.inputs[k].ty.ty = "Reference"
             /\ sig.inputs[k].ty.lifetime = <<>>
    \/ /\ sig.output.rt = "Type"
       /\ sig.output.ty.ty = "Reference"
       /\ sig.output.ty.lifetime = <<>>

DeclaredResult(sig) == IF sig.output.rt = "Default" THEN TypeTuple(<<>>) ELSE sig.output.ty

IsFutureBound(b, ty) ==
    /\ b.bound = "Trait"
    /\ b.path.leading_colon
    /\ [k \in 1..Len(b.path.segments) |-> b.path.segments[k].ident]
          = <<"core", "future", "Future">>
    /\ b.path.segments[3].arguments = AngleBracketed(<<Binding("Output", ty)>>)

IsSendBound(b) ==
    /\ b.bound = "Trait"
    /\ [k \in 1..Len(b.path.segments) |-> b.path.segments[k].ident]
          = <<"core", "marker", "Send">>

\* The name of the slot the emitted method i returns.
ReturnsSelfSlot(i) ==
    /\ Emitted_[i].sig.output.rt = "Type"
    /\ Emitted_[i].sig.output.ty.ty = "Path"
    /\ Len(Emitted_[i].sig.output.ty.path.segments) = 2
    /\ Emitted_[i].sig.output.ty.path.segments[1].ident = "Self"
ReturnedSlot(i) == Emitted_[i].sig.output.ty.path.segments[2].ident
SlotsOf(i) == {j \in Appended : Emitted_[j].member = "Type"
                                /\ Emitted_[j].ident = ReturnedSlot(i)}

\* C1: on the interface path every fully annotated async method is emitted
\* without the async marker, returning Self::<slot>, where <slot> is named
\* after the method, is appended to the same trait, and is bounded by
\* Future<Output = the declared result type> (unit when none is declared).
C1_InterfaceSlot ==
    (OnTrait /\ Succeeded) =>
        \A i \in 1..Len(Written) :
            (AsyncMarked(Written[i]) /\ FullyAnnotated(Written[i].sig)) =>
                /\ Emitted_[i].member = "Method"
                /\ Emitted_[i].sig.asyncness = FALSE
                /\ ReturnsSelfSlot(i)
                /\ ReturnedSlot(i) = SlotPrefix \o Written[i].sig.ident
                /\ \E j \in SlotsOf(i) :
                      /\ Emitted_[j].bounds # <<>>
                      /\ IsFutureBound(Emitted_[j].bounds[1], DeclaredResult(Written[i].sig))

C1_Witness ==
    /\ OnTrait /\ Succeeded
    /\ \E i, k \in 1..Len(Written) :
          /\ AsyncMarked(Written[i]) /\ FullyAnnotated(Written[i].sig)
          /\ Written[i].sig.output.rt = "Default"
          /\ AsyncMarked(Written[k]) /\ FullyAnnotated(Written[k].sig)
          /\ Written[k].sig.output.rt = "Type"

\* The alias the slot binding j names, and the aliases declared next to
\* the impl in the private module.
BoundAlias(j) == Emitted_[j].ty.path.segments[2].ident
DeclaredAliases ==
    {expansion.stream[1].content[k].ident : k \in 3..Len(expansion.stream[1].content)}

\* C2: on the implementation path the body of every async method becomes
\* the single statement `async move { <the original statements> }`, its slot
\* is bound to an opaque alias named after the method, and methods with
\* distinct identifiers get distinct aliases.
C2_ImplBodyAndAlias ==
    (OnImpl /\ Succeeded) =>
        /\ \A i \in 1..Len(Written) :
              AsyncMarked(Written[i]) =>
                  /\ Emitted_[i].block.stmts =
                        <<[stmt |-> "Expr",
                           expr |-> [expr |-> "Async", attrs |-> <<>>, capture |-> <<"move">>,
                                     block |-> [stmts |-> Written[i].block.stmts]]]>>
                  /\ ReturnsSelfSlot(i)
                  /\ SlotsOf(i) # {}
                  /\ \E j \in SlotsOf(i) :
                        /\ BoundAlias(j) = AliasPrefix \o Written[i].sig.ident
                        /\ BoundAlias(j) \in DeclaredAliases
        /\ \A i, k \in 1..Len(Written) :
              (/\ AsyncMarked(Written[i]) /\ AsyncMarked(Written[k])
               /\ Written[i].sig.ident # Written[k].sig.ident) =>
                  \A j \in SlotsOf(i), l \in SlotsOf(k) : BoundAlias(j) # BoundAlias(l)

C2_Witness ==
    /\ OnImpl /\ Succeeded
    /\ \E i, k \in 1..Len(Written) :
          /\ AsyncMarked(Written[i]) /\ AsyncMarked(Written[k])
          /\ Written[i].sig.ident # Written[k].sig.ident
          /\ Len(Written[i].block.stmts) = 2

\* A per-method capability annotation: #[real_async_trait ...].
IsCapabilityAnnotation(attr) ==
    attr.path = [leading_colon |-> FALSE,
                 segments |-> <<[ident |-> "real_async_trait", arguments |-> [pa |-> "None"]]>>]
HasArguments(m) ==
    \E a \in 1..Len(m.attrs) : IsCapabilityAnnotation(m.attrs[a]) /\ m.attrs[a].tokens # <<>>

\* C3 as stated: whenever a method lacks a lifetime on a reference-typed
\* parameter, the receiver or a reference return type, the expansion fails
\* with the missing-lifetime error, whatever else the declaration holds.
C3_AnyMethodMissingLifetimeFails ==
    (Done /\ (OnTrait \/ OnImpl)) =>
        \A i \in 1..Len(Written) :
            (Written[i].member = "Method" /\ LacksLifetime(Written[i].sig)) =>
                /\ Failed
                /\ expansion.message \in MissingLifetimeErrors

\* C3, amended: whenever an ASYNC method lacks such a lifetime the expansion
\* fails and nothing is emitted; the error is the missing-lifetime error
\* unless, on the interface path, the annotation of that method or of an
\* earlier async method was rejected first.
C3_AsyncMissingLifetimeFails ==
    (Done /\ (OnTrait \/ OnImpl)) =>
        \A i \in 1..Len(Written) :
            (AsyncMarked(Written[i]) /\ LacksLifetime(Written[i].sig)) =>
                /\ Failed
                /\ scope = <<>>
                /\ \/ expansion.message \in MissingLifetimeErrors
                   \/ /\ OnTrait
                      /\ expansion.message \in
                            {UnrecognizedCapabilityError, MalformedAnnotationError}
                      /\ \E k \in 1..i : AsyncMarked(Written[k]) /\ HasArguments(Written[k])

C3_Witness ==
    /\ OnTrait /\ Failed
    /\ expansion.message = ReferenceLackedLifetime
    /\ \E i \in 1..Len(Written) :
          /\ AsyncMarked(Written[i])
          /\ Written[i].sig.output.rt = "Type"
          /\ Written[i].sig.output.ty.ty = "Reference"
          /\ Written[i].sig.output.ty.lifetime = <<>>
          /\ FullyAnnotated([Written[i].sig EXCEPT !.output = ReturnTypeDefault])
          /\ \A k \in 1..Len(Written) : k # i => ~AsyncMarked(Written[k])

\* C4: on the interface path every member that is not an async method is
\* emitted as written, and a trait without async methods is emitted
\* unchanged, with nothing appended.
C4_OtherMembersUnchanged ==
    (OnTrait /\ Done) =>
        /\ Succeeded =>
              \A i \in 1..Len(Written) : ~AsyncMarked(Written[i]) => Emitted_[i] = Written[i]
        /\ (\A i \in 1..Len(Written) : ~AsyncMarked(Written[i])) =>
              /\ Succeeded
              /\ expansion.stream = <<token_stream>>

C4_Witness ==
    /\ OnTrait /\ Succeeded
    /\ Len(Written) = 2
    /\ \A i \in 1..Len(Written) : ~AsyncMarked(Written[i])
    /\ \E i \in 1..Len(Written) :
          /\ Written[i].member = "Method"
          /\ LacksLifetime(Written[i].sig)
          /\ HasArguments(Written[i])

\* An argument list `(kw, kw, ...)`: identifiers separated by commas.
IsKeywordList(tokens) ==
    /\ Len(tokens) = 1
    /\ tokens[1].tt = "Group"
    /\ LET stream == tokens[1].stream
       IN  /\ Len(stream) % 2 = 1
           /\ \A k \in 1..Len(stream) :
                 IF k % 2 = 1 THEN stream[k].tt = "Ident"
                 ELSE stream[k].tt = "Punct" /\ stream[k].ch = ","
ListedKeywords(tokens) ==
    [k \in 1..((Len(tokens[1].stream) + 1) \div 2) |-> tokens[1].stream[2 * k - 1].text]

LowerCase(text) ==
    [k \in 1..Len(text) |->
        CASE text[k] = "S" -> "s" [] text[k] = "E" -> "e" [] text[k] = "N" -> "n"
          [] text[k] = "D" -> "d" [] OTHER -> text[k]]
AnyCasingOfSend(text) == LowerCase(text) = <<"s", "e", "n", "d">>
UsualSpellingOfSend(text) == text \in {<<"S", "e", "n", "d">>, <<"s", "e", "n", "d">>}

CapabilityAnnotations(m) ==
    {a \in 1..Len(m.attrs) : IsCapabilityAnnotation(m.attrs[a])}

SendBounds(j) == {b \in 1..Len(Emitted_[j].bounds) : IsSendBound(Emitted_[j].bounds[b])}

\* C5 as stated: when the annotations of every async method list only
\* recognized keywords (here: Send or send, one or more per list), the
\* expansion succeeds and each annotated method's slot carries exactly one
\* Send bound, also when the keyword is repeated inside one argument list.
C5_OneBoundPerKeyword ==
    (/\ OnTrait /\ Done
     /\ \A i \in 1..Len(Written) :
           AsyncMarked(Written[i]) =>
               /\ FullyAnnotated(Written[i].sig)
               /\ \A a \in CapabilityAnnotations(Written[i]) :
                     /\ IsKeywordList(Written[i].attrs[a].tokens)
                     /\ \A k \in DOMAIN ListedKeywords(Written[i].attrs[a].tokens) :
                           UsualSpellingOfSend(ListedKeywords(Written[i].attrs[a].tokens)[k]))
    => /\ Succeeded
       /\ \A i \in 1..Len(Written) :
             (AsyncMarked(Written[i]) /\ CapabilityAnnotations(Written[i]) # {}) =>
                 \E j \in SlotsOf(i) : Cardinality(SendBounds(j)) = 1

\* The leaves of a token stream, groups opened.
RECURSIVE Leaves(_)
Leaves(stream) ==
    IF stream = <<>> THEN <<>>
    ELSE IF stream[1].tt = "Group"
         THEN Leaves(stream[1].stream) \o Leaves(Tail(stream))
         ELSE <<stream[1]>> \o Leaves(Tail(stream))

IsUnrecognizedToken(tok) ==
    /\ ~(tok.tt = "Ident" /\ AnyCasingOfSend(tok.text))
    /\ ~(tok.tt = "Punct" /\ tok.ch = ",")

HasUnrecognizedToken(m) ==
    \E a \in CapabilityAnnotations(m) :
        \E k \in 1..Len(Leaves(m.attrs[a].tokens)) :
            IsUnrecognizedToken(Leaves(m.attrs[a].tokens)[k])

HasStrayPunctuation(m) ==
    \E a \in CapabilityAnnotations(m) :
        \E k \in 1..Len(m.attrs[a].tokens) : m.attrs[a].tokens[k].tt = "Punct"

\* C6 as stated: an unrecognized token in a capability annotation of an
\* async trait method makes the expansion fail with the
\* unrecognized-capability error.
C6_UnrecognizedTokenError ==
    (OnTrait /\ Done) =>
        \A i \in 1..Len(Written) :
            (AsyncMarked(Written[i]) /\ HasUnrecognizedToken(Written[i])) =>
                /\ Failed
                /\ expansion.message = UnrecognizedCapabilityError

\* C6, amended: an unrecognized token in a capability annotation of an async
\* trait method makes the expansion fail and emit nothing, never succeed; the
\* error reported is the first one met in declaration order: the
\* unrecognized-capability error, unless punctuation outside the argument
\* group of an annotation of that or an earlier async method (the
\* malformed-annotation error), or an unannotated reference of an earlier
\* async method (the missing-lifetime error), comes first.
C6_UnrecognizedTokenFails ==
    (OnTrait /\ Done) =>
        \A i \in 1..Len(Written) :
            (AsyncMarked(Written[i]) /\ HasUnrecognizedToken(Written[i])) =>
                /\ Failed
                /\ scope = <<>>
                /\ \/ expansion.message = UnrecognizedCapabilityError
                   \/ /\ expansion.message = MalformedAnnotationError
                      /\ \E k \in 1..i :
                            AsyncMarked(Written[k]) /\ HasStrayPunctuation(Written[k])
                   \/ /\ expansion.message \in MissingLifetimeErrors
                      /\ \E k \in 1..(i - 1) :
                            AsyncMarked(Written[k]) /\ ~FullyAnnotated(Written[k].sig)

C6_Witness ==
    /\ OnTrait /\ Failed
    /\ expansion.message = UnrecognizedCapabilityError
    /\ Len(Written) = 2
    /\ AsyncMarked(Written[1]) /\ ~HasUnrecognizedToken(Written[1])
    /\ AsyncMarked(Written[2]) /\ HasUnrecognizedToken(Written[2])
    /\ ~HasStrayPunctuation(Written[2])

\* C7 as stated: every casing of the keyword is recognized: when the
\* annotations of the async methods each name Send in some casing, the
\* expansion succeeds and each annotated method's slot carries the Send bound.
C7_AnyCasingRecognized ==
    (/\ OnTrait /\ Done
     /\ \A i \in 1..Len(Written) :
           AsyncMarked(Written[i]) =>
               /\ FullyAnnotated(Written[i].sig)
               /\ \A a \in CapabilityAnnotations(Written[i]) :
                     /\ IsKeywordList(Written[i].attrs[a].tokens)
                     /\ Len(ListedKeywords(Written[i].attrs[a].tokens)) = 1
                     /\ AnyCasingOfSend(ListedKeywords(Written[i].attrs[a].tokens)[1]))
    => /\ Succeeded
       /\ \A i \in 1..Len(Written) :
             (AsyncMarked(Written[i]) /\ CapabilityAnnotations(Written[i]) # {}) =>
                 \E j \in SlotsOf(i) : SendBounds(j) # {}

\* C8 as stated: only a trait or an implementation of a trait is expanded;
\* every other item, an inherent impl included, is rejected with the shape
\* error and emits nothing.
C8_OnlyTraitAndTraitImpl ==
    Done =>
        \/ OnTrait
        \/ OnImpl /\ token_stream.trait_ # <<>>
        \/ /\ Failed
           /\ expansion.message = ShapeError
           /\ scope = <<>>

\* C9 as stated: the private modules emitted for two different
\* implementation blocks of one surrounding module have different names.
C9_PrivateScopesDistinct ==
    \A i, j \in 1..Len(scope) :
        (/\ i # j
         /\ scope[i].item = "Mod" /\ scope[j].item = "Mod"
         /\ scope[i].for # scope[j].for) =>
            scope[i].ident # scope[j].ident

\* C10 as stated: a capability annotation naming zero or more recognized
\* keywords (here: bare, an empty list, or one Send/send) on an async trait
\* method is accepted and removed: the expansion succeeds and no capability
\* annotation is left on the emitted method.
C10_AnnotationConsumed ==
    (/\ OnTrait /\ Done
     /\ \A i \in 1..Len(Written) :
           AsyncMarked(Written[i]) =>
               /\ FullyAnnotated(Written[i].sig)
               /\ \A a \in CapabilityAnnotations(Written[i]) :
                     LET tokens == Written[i].attrs[a].tokens
                     IN  \/ tokens = <<>>
                         \/ tokens = <<[tt |-> "Group", delimiter |-> "Parenthesis",
                                        stream |-> <<>>]>>
                         \/ /\ IsKeywordList(tokens)
                            /\ Len(ListedKeywords(tokens)) = 1
                            /\ UsualSpellingOfSend(ListedKeywords(tokens)[1]))
    => /\ Succeeded
       /\ \A i \in 1..Len(Written) :
             AsyncMarked(Written[i]) => CapabilityAnnotations(Emitted_[i]) = {}

\* The names of the lifetime parameters of a parameter list, in order.
RECURSIVE LifetimeNames(_)
LifetimeNames(params) ==
    IF params = <<>> THEN <<>>
    ELSE IF params[1].gp = "Lifetime"
         THEN <<params[1].lifetime>> \o LifetimeNames(Tail(params))
         ELSE LifetimeNames(Tail(params))

DeclarationLifetimes == LifetimeNames(token_stream.generics.params)
MethodLifetimes(m) == LifetimeNames(m.sig.generics.params)

\* The positions of the async methods among the written members, in order.
RECURSIVE AsyncPositionsFrom(_, _)
AsyncPositionsFrom(items, i) ==
    IF i > Len(items) THEN <<>>
    ELSE IF AsyncMarked(items[i]) THEN <<i>> \o AsyncPositionsFrom(items, i + 1)
    ELSE AsyncPositionsFrom(items, i + 1)
AsyncPositions == AsyncPositionsFrom(Written, 1)

\* The k-th opaque alias declared after the impl in the private module.
AliasDecl(k) == expansion.stream[1].content[2 + k]
AliasParams(k) == LifetimeNames(AliasDecl(k).generics.params)
AliasLifetimeBounds(k) ==
    LET bounds == AliasDecl(k).ty.bounds
    IN  [b \in 1..(Len(bounds) - 1) |->
            IF bounds[b + 1].bound = "Lifetime" THEN bounds[b + 1].lifetime ELSE "?"]

\* C11 as stated: the opaque alias of a method is parameterized over, and
\* bounded by, the lifetimes declared on the impl block only; the lifetimes
\* declared on the method do not appear on it.
C11_AliasOverDeclarationLifetimesOnly ==
    (OnImpl /\ Succeeded) =>
        \A k \in 1..Len(AsyncPositions) :
            /\ AliasParams(k) = DeclarationLifetimes
            /\ AliasLifetimeBounds(k) = DeclarationLifetimes

\* C11, amended: the opaque alias of a method is parameterized over the
\* lifetimes declared on the impl block followed by the lifetimes declared on
\* the method itself, and its lifetime bounds are that same list.
C11_AliasOverAllLifetimes ==
    (OnImpl /\ Succeeded) =>
        /\ Len(expansion.stream[1].content) = 2 + Len(AsyncPositions)
        /\ \A k \in 1..Len(AsyncPositions) :
              LET all == DeclarationLifetimes \o MethodLifetimes(Written[AsyncPositions[k]])
              IN  /\ AliasParams(k) = all
                  /\ AliasLifetimeBounds(k) = all

C11_Witness ==
    /\ OnImpl /\ Succeeded
    /\ DeclarationLifetimes # <<>>
    /\ \E k \in 1..Len(AsyncPositions) :
          /\ MethodLifetimes(Written[AsyncPositions[k]]) # <<>>
          /\ Len(AliasParams(k)) = 2

\* C12 as stated: validation never succeeds while a reference without an
\* explicit lifetime remains anywhere in the signature of an async method, at
\* any nesting depth.
C12_NoBareReferenceSurvives ==
    (Done /\ (OnTrait \/ OnImpl)) =>
        \A i \in 1..Len(Written) :
            (AsyncMarked(Written[i]) /\ ~FullyAnnotated(Written[i].sig)) => Failed

\* C13: the emitted members are the written members, in their positions,
\* followed by one generated slot per async method in the order the async
\* methods were written; on the implementation path the private module holds
\* the impl followed by one alias per async method, in the same order.
C13_GeneratedMembersAppendedInOrder ==
    ((OnTrait \/ OnImpl) /\ Succeeded) =>
        /\ Len(Emitted_) = Len(Written) + Len(AsyncPositions)
        /\ \A i \in 1..Len(Written) :
              /\ Emitted_[i].member = Written[i].member
              /\ IF Written[i].member = "Method"
                 THEN Emitted_[i].sig.ident = Written[i].sig.ident
                 ELSE Emitted_[i] = Written[i]
        /\ \A k \in 1..Len(AsyncPositions) :
              /\ Emitted_[Len(Written) + k].member = "Type"
              /\ Emitted_[Len(Written) + k].ident
                    = SlotPrefix \o Written[AsyncPositions[k]].sig.ident
        /\ OnImpl =>
              /\ Len(expansion.stream[1].content) = 2 + Len(AsyncPositions)
              /\ expansion.stream[1].content[2].item = "Impl"
              /\ \A k \in 1..Len(AsyncPositions) :
                    /\ AliasDecl(k).item = "Type"
                    /\ AliasDecl(k).ident
                          = AliasPrefix \o Written[AsyncPositions[k]].sig.ident

C13_Witness ==
    /\ OnImpl /\ Succeeded
    /\ Len(Written) = 2
    /\ AsyncMarked(Written[1]) /\ AsyncMarked(Written[2])
    /\ Written[1].sig.ident = "g" /\ Written[2].sig.ident = "f"
    /\ AliasDecl(1).ident # AliasDecl(2).ident

\* The written and emitted member lists of an item of the surrounding module.
WrittenIn(e) == e.written.items
EmittedIn(e) == IF e.item = "Mod" THEN e.emitted.content[2].items ELSE e.emitted.items
AliasesIn(e) == SubSeq(e.emitted.content, 3, Len(e.emitted.content))

\* The generated slot of the async method written at position i: slots are
\* appended one per async method, in the order of the async methods.
SlotIn(e, i) ==
    EmittedIn(e)[Len(WrittenIn(e))
                 + Cardinality({x \in 1..i : AsyncMarked(WrittenIn(e)[x])})]

ArgumentLifetimes(segment) ==
    IF segment.arguments.pa = "AngleBracketed"
    THEN [a \in 1..Len(segment.arguments.args) |->
            IF segment.arguments.args[a].ga = "Lifetime"
            THEN segment.arguments.args[a].lifetime ELSE "?"]
    ELSE <<>>

\* C14: (a) when a trait and an impl expanded into the same module both
\* write an async method of the same identifier and the same method-level
\* lifetime parameters, the two expansions give the slot the same name and
\* the same lifetime parameters and rewrite the method to the same return
\* type; (b) in every emitted private module, each slot binding names an
\* alias declared in that module, with lifetime arguments equal in number
\* and order to the alias's parameters.
C14_PathsAgreeAndBindingsResolve ==
    /\ \A p, q \in 1..Len(scope) :
          (scope[p].item = "Trait" /\ scope[q].item = "Mod") =>
              \A i \in 1..Len(WrittenIn(scope[p])), j \in 1..Len(WrittenIn(scope[q])) :
                  LET tm == WrittenIn(scope[p])[i]
                      im == WrittenIn(scope[q])[j]
                  IN  (/\ AsyncMarked(tm) /\ AsyncMarked(im)
                       /\ tm.sig.ident = im.sig.ident
                       /\ MethodLifetimes(tm) = MethodLifetimes(im)) =>
                          /\ SlotIn(scope[p], i).ident = SlotIn(scope[q], j).ident
                          /\ SlotIn(scope[p], i).ident = SlotPrefix \o tm.sig.ident
                          /\ LifetimeNames(SlotIn(scope[p], i).generics.params)
                                = LifetimeNames(SlotIn(scope[q], j).generics.params)
                          /\ Len(SlotIn(scope[p], i).generics.params)
                                = Len(SlotIn(scope[q], j).generics.params)
                          /\ EmittedIn(scope[p])[i].sig.output
                                = EmittedIn(scope[q])[j].sig.output
    /\ \A q \in 1..Len(scope) :
          scope[q].item = "Mod" =>
              \A b \in (Len(WrittenIn(scope[q])) + 1)..Len(EmittedIn(scope[q])) :
                  LET binding == EmittedIn(scope[q])[b]
                      target == binding.ty.path.segments[2]
                  IN  /\ binding.ty.path.segments[1].ident = "self"
                      /\ \E k \in 1..Len(AliasesIn(scope[q])) :
                            AliasesIn(scope[q])[k].ident = target.ident
                      /\ \A k \in 1..Len(AliasesIn(scope[q])) :
                            AliasesIn(scope[q])[k].ident = target.ident =>
                                /\ Len(AliasesIn(scope[q])[k].generics.params)
                                      = Len(ArgumentLifetimes(target))
                                /\ LifetimeNames(AliasesIn(scope[q])[k].generics.params)
                                      = ArgumentLifetimes(target)

C14_Witness ==
    \E p, q \in 1..Len(scope) :
        /\ scope[p].item = "Trait" /\ scope[q].item = "Mod"
        /\ Len(WrittenIn(scope[p])) = 1 /\ Len(WrittenIn(scope[q])) = 1
        /\ AsyncMarked(WrittenIn(scope[p])[1]) /\ AsyncMarked(WrittenIn(scope[q])[1])
        /\ WrittenIn(scope[p])[1].sig.ident = WrittenIn(scope[q])[1].sig.ident
        /\ MethodLifetimes(WrittenIn(scope[p])[1]) = <<LtA>>
        /\ MethodLifetimes(WrittenIn(scope[q])[1]) = <<LtA>>
        /\ LifetimeNames(scope[p].written.generics.params) = <<>>
        /\ LifetimeNames(scope[q].written.generics.params) = <<LtT>>
        /\ Len(EmittedIn(scope[q])) = 2
        /\ ArgumentLifetimes(EmittedIn(scope[q])[2].ty.path.segments[2]) = <<LtT, LtA>>
====
